---- MODULE Spec2Model ----
(***************************************************************************)
(* A model of nanobind's bind_map<Map>() (include/nanobind/stl/bind_map.h) *)
(* instantiated for Map = std::map<Key, Value>, Value a bound class type.  *)
(*                                                                         *)
(* The container maps each key to the value stored in its node; its native *)
(* order is the order of the keys.  A pointer into the container (the      *)
(* Value & behind a returned reference, the position of an iterator) is at *)
(* the node of a key, at the end, or at a node that was freed.  A freed    *)
(* node is known by the pointers left pointing at it: an address has no    *)
(* other meaning.  When a node is allocated the allocator returns a new    *)
(* address or the address of a freed node, and then the pointers left at   *)
(* that address point at the new node.                                     *)
(*                                                                         *)
(* Python objects (the Map, its views, its iterators, value references)    *)
(* live as long as the caller holds a handle on them or another live       *)
(* object keeps them alive (keep_alive<0, 1>).  There is one Map at a      *)
(* time, with at most one view, two iterators and one value reference;     *)
(* each specification below lets the caller use the methods of one part    *)
(* of the interface.                                                       *)
(*                                                                         *)
(* A copy of a Value can throw.  A copy assignment that throws is taken to *)
(* leave the assigned value as it was.                                     *)
(***************************************************************************)
EXTENDS Integers, Sequences, FiniteSets, TLC

\* ------------------------------------------------------------------ bounds
MaxKey == 2      \* keys of the native key type are 1..MaxKey
MaxVal == 2      \* values the caller passes are 1..MaxVal

Keys == 1..MaxKey
Values == 1..MaxVal
DefaultVal == 0                   \* Value(): what operator[] constructs
NoKey == 0
Absent == -1                      \* no entry for the key
ViewIds == {1}                    \* the view objects the caller juggles
IterIds == {1, 2}                 \* the iterator objects
RefIds == {1}                     \* the value references

\* What the caller can pass where a key is expected: an object of the native
\* key type, or an object of another type.
KeyObj(k) == [type |-> "Key", val |-> k]
Foreign == {[type |-> "str", val |-> 0], [type |-> "NoneType", val |-> 0]}
Args == {KeyObj(k) : k \in Keys} \cup Foreign

VARIABLES
    caps,       \* the Value type's capabilities (fixed at instantiation)
    m,          \* the container: key -> stored value, Absent: no entry
    mapAlive,   \* the Map object has not been destroyed
    mapHeld,    \* the caller holds a handle on the Map object
    views,      \* view objects
    iters,      \* iterator objects
    refs,       \* value references returned by __getitem__
    crashed,    \* undefined behaviour ended the process
    watch,      \* what the observer records: the calls, the views' births
    last        \* the last call: what it was given, what it gave back

vars == <<caps, watch, m, mapAlive, mapHeld, views, iters, refs, crashed, last>>

\* ------------------------------------------------- the native container
EmptyMap == [k \in Keys |-> Absent]

\* Pointers into the container.
AtEnd == [at |-> "end", k |-> NoKey, grp |-> {}]
AtNode(k) == [at |-> "node", k |-> k, grp |-> {}]
AtFreed(G) == [at |-> "freed", k |-> NoKey, grp |-> G]

KeySet(mm) == {k \in Keys : mm[k] # Absent}

\* m.end()
end(mm) == AtEnd

\* m.find(k)
find(mm, k) == IF mm[k] # Absent THEN AtNode(k) ELSE end(mm)

\* m.size()
size(mm) == Cardinality(KeySet(mm))

\* m.empty()
empty(mm) == \A k \in Keys : mm[k] = Absent

\* m.erase(it), it at the node of k
erase(mm, k) == [mm EXCEPT ![k] = Absent]

\* m.emplace(k, v): the pair (iterator, inserted), with the container after it
emplace(mm, k, v) ==
    IF mm[k] # Absent
    THEN [m |-> mm, first |-> AtNode(k), second |-> FALSE]
    ELSE [m |-> [mm EXCEPT ![k] = v], first |-> AtNode(k), second |-> TRUE]

\* m[k]: the node of k, with a default-constructed value if k was absent
subscript(mm, k) == emplace(mm, k, DefaultVal)

\* m.begin(): the node of the smallest key
begin(mm) ==
    IF KeySet(mm) = {} THEN end(mm)
    ELSE AtNode(CHOOSE k \in KeySet(mm) : \A o \in KeySet(mm) : k <= o)

\* ++it, it at the node of k: the node of the next greater key
successor_stop(mm, k) == end(mm)

successor(mm, k) ==
    LET after == {o \in KeySet(mm) : o > k}
    IN  IF after = {} THEN end(mm)
        ELSE AtNode(CHOOSE o \in after : \A p \in after : o <= p)

\* The sorted sequence of the members of a set of integers.
RECURSIVE SortedSeq(_)
SortedSeq(S) ==
    IF S = {} THEN <<>>
    ELSE LET lo == CHOOSE x \in S : \A y \in S : x <= y
         IN  <<lo>> \o SortedSeq(S \ {lo})

\* ------------------------------------------------------- Python objects
NoObj == [t |-> "none", i |-> 0]
MapObj == [t |-> "map", i |-> 0]
ViewObj(i) == [t |-> "view", i |-> i]
RefPtr(r) == [t |-> "ref", i |-> r]
IterPtr(j) == [t |-> "iter", i |-> j]

\* keep_alive<0, 1>(): the returned object (0) keeps the object the method
\* was called on (1) alive.
keep_alive_0_1(self) == self

EmptyView == [kind |-> "none", held |-> FALSE, keeps |-> NoObj, snap |-> EmptyMap]
EmptyIter ==
    [kind |-> "none", held |-> FALSE, keeps |-> NoObj, it |-> AtEnd,
     first_or_done |-> TRUE, out |-> <<>>, clean |-> TRUE, done |-> FALSE]
EmptyRef ==
    [held |-> FALSE, keeps |-> NoObj, aliased |-> TRUE, ptr |-> AtEnd,
     copy |-> DefaultVal, key |-> NoKey, valid |-> FALSE]

\* rv_policy::reference_internal: the Python object wraps the address of the
\* stored value (it->second) and keeps the Map alive.
rv_policy_copy(mm, it, self) ==
    [held |-> TRUE, keeps |-> NoObj, aliased |-> FALSE, ptr |-> it,
     copy |-> mm[it.k], key |-> it.k, valid |-> TRUE]

rv_policy_reference_internal(mm, it, self) ==
    [held |-> TRUE, keeps |-> keep_alive_0_1(self), aliased |-> TRUE, ptr |-> it,
     copy |-> DefaultVal, key |-> it.k, valid |-> TRUE]

\* struct KeyView { Map &map; }: the view reads the container itself.
ViewMap_snapshot(w, mm) == w.snap

ViewMap(w, mm) == mm

\* Reference counting of the foreign runtime: an object lives while the
\* caller holds it or a live object keeps it alive.
ViewAliveIn(vs, its, i) ==
    /\ vs[i].kind # "none"
    /\ \/ vs[i].held
       \/ \E j \in IterIds : its[j].held /\ its[j].keeps = ViewObj(i)

MapAliveIn(held, vs, its, rs) ==
    \/ held
    \/ \E i \in ViewIds : vs[i].kind # "none" /\ vs[i].keeps = MapObj
    \/ \E j \in IterIds : its[j].held /\ its[j].keeps = MapObj
    \/ \E r \in RefIds : rs[r].held /\ rs[r].keeps = MapObj

\* The pointers the live objects hold, and what a destroyed object's pointer
\* leaves of the freed nodes it was at.
Forget(p, gone) == IF p.at = "freed" THEN [p EXCEPT !.grp = @ \ gone] ELSE p

Collect(held, vs, its, rs) ==
    LET gone == {IterPtr(j) : j \in {j \in IterIds : ~its[j].held}}
                \cup {RefPtr(r) : r \in {r \in RefIds : ~rs[r].held}}
        its2 == [j \in IterIds |->
                   IF its[j].held THEN [its[j] EXCEPT !.it = Forget(@, gone)]
                   ELSE EmptyIter]
        vs2 == [i \in ViewIds |-> IF ViewAliveIn(vs, its2, i) THEN vs[i] ELSE EmptyView]
        rs2 == [r \in RefIds |->
                  IF rs[r].held THEN [rs[r] EXCEPT !.ptr = Forget(@, gone)]
                  ELSE EmptyRef]
    IN  [views |-> vs2, iters |-> its2, refs |-> rs2,
         mapAlive |-> MapAliveIn(held, vs2, its2, rs2)]

\* ------------------------------------------------ pointers and nodes
\* The pointers at the node of k.
PtrsAt(rs, its, k) ==
    {RefPtr(r) : r \in {r \in RefIds : rs[r].held /\ rs[r].aliased
                                        /\ rs[r].ptr = AtNode(k)}}
    \cup {IterPtr(j) : j \in {j \in IterIds : its[j].held /\ its[j].it = AtNode(k)}}

\* The freed nodes some pointer is left at, each as the set of its pointers.
FreedGroups(rs, its) ==
    {rs[r].ptr.grp : r \in {r \in RefIds : rs[r].held /\ rs[r].aliased
                                           /\ rs[r].ptr.at = "freed"}}
    \cup {its[j].it.grp : j \in {j \in IterIds : its[j].held /\ its[j].it.at = "freed"}}

\* The node of key `gone` is freed (NoKey: none is).
PtrErase(p, gone, G) == IF gone # NoKey /\ p = AtNode(gone) THEN AtFreed(G) ELSE p

\* The node of key `made` is allocated at the address of freed node G ({}: at
\* a new address; made = NoKey: no node is allocated).
PtrAlloc(p, made, G) ==
    IF made # NoKey /\ G # {} /\ p.at = "freed" /\ p.grp = G THEN AtNode(made) ELSE p

RefsAfter(rs, its, gone, made, G) ==
    LET at == PtrsAt(rs, its, gone)
    IN  [r \in RefIds |->
           IF ~rs[r].held \/ ~rs[r].aliased THEN rs[r]
           ELSE [rs[r] EXCEPT
                   !.ptr = PtrAlloc(PtrErase(@, gone, at), made, G),
                   !.valid = @ /\ ~(gone # NoKey /\ rs[r].ptr = AtNode(gone))]]

\* A mutation of the container ends the "no mutation since creation" of every
\* iterator; what the caller saw of it before is then of no interest.
ItersAfter(rs, its, gone, made, G) ==
    LET at == PtrsAt(rs, its, gone)
    IN  [j \in IterIds |->
           IF ~its[j].held THEN its[j]
           ELSE [its[j] EXCEPT
                   !.it = PtrAlloc(PtrErase(@, gone, at), made, G),
                   !.clean = FALSE, !.out = <<>>]]

\* The addresses the allocator can return once the node of `gone` is freed.
Reusable(rs, its, gone) ==
    {{}} \cup FreedGroups(rs, its)
         \cup (IF gone = NoKey THEN {} ELSE {PtrsAt(rs, its, gone)})

\* ------------------------------------------------------ the last call
NoCall ==
    [op |-> "none", arg |-> KeyObj(NoKey), val |-> DefaultVal, pre |-> EmptyMap,
     outcome |-> "ok", ret |-> 0, retB |-> FALSE]

Call(op, arg, val, outcome, ret, retB) ==
    IF watch.calls
    THEN [op |-> op, arg |-> arg, val |-> val, pre |-> m,
          outcome |-> outcome, ret |-> ret, retB |-> retB]
    ELSE NoCall

Did(op) == Call(op, KeyObj(NoKey), DefaultVal, "ok", 0, FALSE)

\* The state after the Map is constructed; w is what the observer records.
Start(w) ==
    /\ caps \in [copy_assignable : BOOLEAN, copy_constructible : BOOLEAN]
    /\ watch = w
    /\ m = EmptyMap
    /\ mapAlive = TRUE
    /\ mapHeld = TRUE
    /\ views = [i \in ViewIds |-> EmptyView]
    /\ iters = [j \in IterIds |-> EmptyIter]
    /\ refs = [r \in RefIds |-> EmptyRef]
    /\ crashed = FALSE
    /\ last = NoCall

Init == Start([calls |-> TRUE, snaps |-> FALSE])

\* The caller can call a method of the Map while it holds the Map.
CanCall == mapHeld /\ ~crashed

\* ------------------------------------------------ MapAdapter: queries
\* __len__
map_len(mm) == size(mm)

MapLen ==
    /\ CanCall
    /\ last' = Call("len", KeyObj(NoKey), DefaultVal, "ok", map_len(m), FALSE)
    /\ UNCHANGED <<caps, watch, m, mapAlive, mapHeld, views, iters, refs, crashed>>

\* __bool__
map_bool_inverted(mm) == empty(mm)

map_bool(mm) == ~empty(mm)

MapBool ==
    /\ CanCall
    /\ last' = Call("bool", KeyObj(NoKey), DefaultVal, "ok", 0, map_bool(m))
    /\ UNCHANGED <<caps, watch, m, mapAlive, mapHeld, views, iters, refs, crashed>>

\* The type caster of Key accepts the objects of the native key type.
cast_Key(x) == x.type = "Key"

\* __contains__(const Map &, const Key &)
contains_typed(mm, k) == find(mm, k) # end(mm)

\* __contains__(const Map &, handle): fallback for incompatible types
contains_fallback(mm, x) == FALSE

\* The overloads are tried in the order of their definition; a call that no
\* overload accepts is rejected with a TypeError.
contains_no_fallback(mm, x) ==
    IF cast_Key(x) THEN [outcome |-> "ok", retB |-> contains_typed(mm, x.val)]
    ELSE [outcome |-> "TypeError", retB |-> FALSE]

map_contains(mm, x) ==
    IF cast_Key(x) THEN [outcome |-> "ok", retB |-> contains_typed(mm, x.val)]
    ELSE [outcome |-> "ok", retB |-> contains_fallback(mm, x)]

Contains(x) ==
    /\ CanCall
    /\ LET res == map_contains(m, x)
       IN  last' = Call("contains", x, DefaultVal, res.outcome, 0, res.retB)
    /\ UNCHANGED <<caps, watch, m, mapAlive, mapHeld, views, iters, refs, crashed>>

\* ------------------------------------------- MapAdapter: subscripting
\* __getitem__: the iterator whose value is returned, or key_error
map_getitem(mm, k) ==
    LET it == find(mm, k)
    IN  IF it = end(mm) THEN [outcome |-> "KeyError", it |-> it]
        ELSE [outcome |-> "ok", it |-> it]

\* The caller keeps the returned reference in r, or drops it at once (r = 0).
\* (try_emplace in the place of find: the slot of an absent key is made, then
\* key_error is thrown.)
GetItem_try_emplace(k, r) ==
    /\ CanCall
    /\ r # 0 => ~refs[r].held
    /\ LET slot == subscript(m, k)
       IN  IF slot.second
           THEN /\ m' = slot.m
                /\ last' = Call("getItem", KeyObj(k), DefaultVal, "KeyError", 0, FALSE)
                /\ refs' = refs
           ELSE /\ m' = m
                /\ last' = Call("getItem", KeyObj(k), DefaultVal, "ok", m[k], FALSE)
                /\ refs' = IF r = 0 THEN refs
                           ELSE [refs EXCEPT ![r] =
                                   rv_policy_reference_internal(m, slot.first, MapObj)]
    /\ UNCHANGED <<caps, watch, mapAlive, mapHeld, views, iters, crashed>>

GetItem(k, r) ==
    /\ CanCall
    /\ r # 0 => ~refs[r].held
    /\ LET res == map_getitem(m, k)
       IN  IF res.outcome = "ok"
           THEN /\ last' = Call("getItem", KeyObj(k), DefaultVal, "ok", m[res.it.k], FALSE)
                /\ refs' = IF r = 0 THEN refs
                           ELSE [refs EXCEPT ![r] =
                                   rv_policy_reference_internal(m, res.it, MapObj)]
           ELSE /\ last' = Call("getItem", KeyObj(k), DefaultVal, res.outcome, 0, FALSE)
                /\ refs' = refs
    /\ UNCHANGED <<caps, watch, m, mapAlive, mapHeld, views, iters, crashed>>

\* __delitem__: gone is the key whose node is freed
delitem_nothrow(mm, k) ==
    LET it == find(mm, k)
    IN  IF it = end(mm) THEN [outcome |-> "ok", m |-> mm, gone |-> NoKey]
        ELSE [outcome |-> "ok", m |-> erase(mm, it.k), gone |-> it.k]

delitem_noerase(mm, k) ==
    LET it == find(mm, k)
    IN  IF it = end(mm) THEN [outcome |-> "KeyError", m |-> mm, gone |-> NoKey]
        ELSE [outcome |-> "ok", m |-> mm, gone |-> NoKey]

\* m.lower_bound(k) in the place of m.find(k): the node of the least key >= k
delitem_lower_bound(mm, k) ==
    LET from == {o \in KeySet(mm) : o >= k}
    IN  IF from = {} THEN [outcome |-> "KeyError", m |-> mm, gone |-> NoKey]
        ELSE LET o == CHOOSE o \in from : \A p \in from : o <= p
             IN  [outcome |-> "ok", m |-> erase(mm, o), gone |-> o]

map_delitem(mm, k) ==
    LET it == find(mm, k)
    IN  IF it = end(mm) THEN [outcome |-> "KeyError", m |-> mm, gone |-> NoKey]
        ELSE [outcome |-> "ok", m |-> erase(mm, it.k), gone |-> it.k]

DelItem(k) ==
    /\ CanCall
    /\ LET res == map_delitem(m, k)
       IN  /\ m' = res.m
           /\ refs' = RefsAfter(refs, iters, res.gone, NoKey, {})
           /\ iters' = IF res.gone = NoKey THEN iters
                       ELSE ItersAfter(refs, iters, res.gone, NoKey, {})
           /\ last' = Call("delItem", KeyObj(k), DefaultVal, res.outcome, 0, FALSE)
    /\ UNCHANGED <<caps, watch, mapAlive, mapHeld, views, crashed>>

\* __setitem__, copy-assignable Value: m[k] = v.  throwAt = 1: the copy
\* assignment throws.  gone, made: the key whose node is freed, allocated.
setitem_assign(mm, k, v, throwAt) ==
    LET slot == subscript(mm, k)
        made == IF slot.second THEN k ELSE NoKey
    IN  IF throwAt = 1
        THEN [outcome |-> "exception", m |-> slot.m, gone |-> NoKey, made |-> made]
        ELSE [outcome |-> "ok", m |-> [slot.m EXCEPT ![slot.first.k] = v],
              gone |-> NoKey, made |-> made]

\* __setitem__, Value copy-constructible only: emplace, and if the key is
\* there, erase and emplace again.  throwAt = 1, 2: the copy construction of
\* the first, the second emplace throws.
setitem_emplace_noretry(mm, k, v, throwAt) ==
    IF throwAt = 1
    THEN [outcome |-> "exception", m |-> mm, gone |-> NoKey, made |-> NoKey]
    ELSE LET r == emplace(mm, k, v)
         IN  [outcome |-> "ok", m |-> r.m, gone |-> NoKey,
              made |-> IF r.second THEN k ELSE NoKey]

setitem_emplace_erase_only(mm, k, v, throwAt) ==
    IF throwAt = 1
    THEN [outcome |-> "exception", m |-> mm, gone |-> NoKey, made |-> NoKey]
    ELSE LET r == emplace(mm, k, v)
         IN  IF r.second
             THEN [outcome |-> "ok", m |-> r.m, gone |-> NoKey, made |-> k]
             ELSE [outcome |-> "ok", m |-> erase(r.m, r.first.k), gone |-> k,
                   made |-> NoKey]

setitem_emplace(mm, k, v, throwAt) ==
    IF throwAt = 1
    THEN [outcome |-> "exception", m |-> mm, gone |-> NoKey, made |-> NoKey]
    ELSE LET r == emplace(mm, k, v)
         IN  IF r.second
             THEN [outcome |-> "ok", m |-> r.m, gone |-> NoKey, made |-> k]
             ELSE LET e == erase(r.m, r.first.k)
                  IN  IF throwAt = 2
                      THEN [outcome |-> "exception", m |-> e, gone |-> k,
                            made |-> NoKey]
                      ELSE [outcome |-> "ok", m |-> emplace(e, k, v).m, gone |-> k,
                            made |-> k]

\* if constexpr (is_copy_assignable_v<Value>) ... else ...
map_setitem_insert_only(cp, mm, k, v, throwAt) ==
    setitem_emplace_noretry(mm, k, v, throwAt)

map_setitem(cp, mm, k, v, throwAt) ==
    IF cp.copy_assignable THEN setitem_assign(mm, k, v, throwAt)
    ELSE setitem_emplace(mm, k, v, throwAt)

\* __setitem__ is defined if Value is copy-assignable or copy-constructible.
has_setitem(cp) == cp.copy_assignable \/ cp.copy_constructible

SetItem(k, v, throwAt) ==
    /\ CanCall
    /\ has_setitem(caps)
    /\ LET res == map_setitem(caps, m, k, v, throwAt)
       IN  \E G \in Reusable(refs, iters, res.gone) :
             /\ m' = res.m
             /\ refs' = RefsAfter(refs, iters, res.gone, res.made, G)
             /\ iters' = ItersAfter(refs, iters, res.gone, res.made, G)
             /\ last' = Call("setItem", KeyObj(k), v, res.outcome, 0, FALSE)
    /\ UNCHANGED <<caps, watch, mapAlive, mapHeld, views, crashed>>

\* init<>(): a new, empty Map (the model holds one Map at a time)
Construct ==
    /\ ~mapAlive /\ ~crashed
    /\ m' = EmptyMap
    /\ mapAlive' = TRUE
    /\ mapHeld' = TRUE
    /\ last' = Did("construct")
    /\ UNCHANGED <<caps, watch, views, iters, refs, crashed>>

\* ------------------------------------------------- value references
\* A pointer at a node that was freed (or whose container was destroyed).
Dangling(p, mm) == p.at = "freed" \/ (p.at = "node" /\ mm[p.k] = Absent)

\* The value seen through a reference.
RefTarget(rf, mm) == IF rf.aliased THEN mm[rf.ptr.k] ELSE rf.copy

\* Reading through a reference to a freed node is undefined: the read gives
\* any value, or the process ends.
ReadRef(r) ==
    /\ refs[r].held /\ ~crashed
    /\ IF refs[r].aliased /\ Dangling(refs[r].ptr, m)
       THEN \/ /\ crashed' = TRUE
               /\ last' = Call("readRef", KeyObj(refs[r].key), DefaultVal, "crash", 0, FALSE)
            \/ \E junk \in {DefaultVal} \cup Values :
               /\ crashed' = crashed
               /\ last' = Call("readRef", KeyObj(refs[r].key), DefaultVal, "ok", junk, FALSE)
       ELSE /\ crashed' = crashed
            /\ last' = Call("readRef", KeyObj(refs[r].key), DefaultVal, "ok",
                            RefTarget(refs[r], m), FALSE)
    /\ UNCHANGED <<caps, watch, m, mapAlive, mapHeld, views, iters, refs>>

\* The caller changes the Value object it got from __getitem__.  Writing
\* through a reference to a freed node is undefined: the write is lost, or
\* the process ends.
WriteRef(r, v) ==
    /\ refs[r].held /\ ~crashed
    /\ IF ~refs[r].aliased
       THEN /\ refs' = [refs EXCEPT ![r].copy = v]
            /\ last' = Call("writeRef", KeyObj(refs[r].key), v, "ok", 0, FALSE)
            /\ UNCHANGED <<m, iters, crashed>>
       ELSE IF Dangling(refs[r].ptr, m)
       THEN \/ /\ crashed' = TRUE
               /\ last' = Call("writeRef", KeyObj(refs[r].key), v, "crash", 0, FALSE)
               /\ UNCHANGED <<m, iters, refs>>
            \/ /\ last' = Call("writeRef", KeyObj(refs[r].key), v, "lost", 0, FALSE)
               /\ UNCHANGED <<m, iters, refs, crashed>>
       ELSE /\ m' = [m EXCEPT ![refs[r].ptr.k] = v]
            /\ iters' = ItersAfter(refs, iters, NoKey, NoKey, {})
            /\ last' = Call("writeRef", KeyObj(refs[r].key), v, "ok", 0, FALSE)
            /\ UNCHANGED <<refs, crashed>>
    /\ UNCHANGED <<caps, watch, mapAlive, mapHeld, views>>

\* ------------------------------------------------------------ views
\* snap records the entries the Map had when the view was made.
NewView(kind, keeps, mm) ==
    [kind |-> kind, held |-> TRUE, keeps |-> keeps,
     snap |-> IF watch.snaps THEN mm ELSE EmptyMap]

\* keys(): new KeyView{m}, keep_alive<0, 1>()
keys_no_keep(self) == NoObj

keys_keep(self) == keep_alive_0_1(self)

Keys_(i) ==
    /\ CanCall
    /\ views[i].kind = "none"
    /\ views' = [views EXCEPT ![i] = NewView("KeyView", keys_keep(MapObj), m)]
    /\ last' = Did("keys")
    /\ UNCHANGED <<caps, watch, m, mapAlive, mapHeld, iters, refs, crashed>>

\* values(): new ValueView{m}, keep_alive<0, 1>()
values_keep(self) == keep_alive_0_1(self)

Values_(i) ==
    /\ CanCall
    /\ views[i].kind = "none"
    /\ views' = [views EXCEPT ![i] = NewView("ValueView", values_keep(MapObj), m)]
    /\ last' = Did("values")
    /\ UNCHANGED <<caps, watch, m, mapAlive, mapHeld, iters, refs, crashed>>

\* items(): new ItemView{m}, keep_alive<0, 1>()
items_keep(self) == keep_alive_0_1(self)

Items_(i) ==
    /\ CanCall
    /\ views[i].kind = "none"
    /\ views' = [views EXCEPT ![i] = NewView("ItemView", items_keep(MapObj), m)]
    /\ last' = Did("items")
    /\ UNCHANGED <<caps, watch, m, mapAlive, mapHeld, iters, refs, crashed>>

\* View.__len__: v.map.size()
view_len(w, mm) == size(ViewMap(w, mm))

ViewLen(i) ==
    /\ views[i].held /\ ~crashed
    /\ last' = Call("viewLen", KeyObj(NoKey), DefaultVal, "ok", view_len(views[i], m), FALSE)
    /\ UNCHANGED <<caps, watch, m, mapAlive, mapHeld, views, iters, refs, crashed>>

\* KeyView.__contains__, typed and fallback
view_contains_no_fallback(w, mm, x) ==
    IF cast_Key(x)
    THEN [outcome |-> "ok", retB |-> find(ViewMap(w, mm), x.val) # end(ViewMap(w, mm))]
    ELSE [outcome |-> "TypeError", retB |-> FALSE]

view_contains(w, mm, x) ==
    IF cast_Key(x)
    THEN [outcome |-> "ok", retB |-> find(ViewMap(w, mm), x.val) # end(ViewMap(w, mm))]
    ELSE [outcome |-> "ok", retB |-> FALSE]

ViewContains(i, x) ==
    /\ views[i].held /\ ~crashed
    /\ views[i].kind = "KeyView"
    /\ LET res == view_contains(views[i], m, x)
       IN  last' = Call("viewContains", x, DefaultVal, res.outcome, 0, res.retB)
    /\ UNCHANGED <<caps, watch, m, mapAlive, mapHeld, views, iters, refs, crashed>>

\* --------------------------------------------------------- iterators
\* make_iterator / make_key_iterator / make_value_iterator(begin, end): the
\* state of the lazy sequence.  out, clean and done record what the caller
\* has seen of it.
NewIter(kind, keeps, first) ==
    [kind |-> kind, held |-> TRUE, keeps |-> keeps, it |-> first,
     first_or_done |-> TRUE, out |-> <<>>, clean |-> TRUE, done |-> FALSE]

\* What the sequence yields at the node of k.
Access(kind, mm, k) ==
    CASE kind = "KeyIterator" -> k
      [] kind = "ValueIterator" -> mm[k]
      [] OTHER -> <<k, mm[k]>>

\* The flavor of sequence each view's __iter__ makes.
view_iter_kind_slip(kind) ==
    CASE kind = "KeyView" -> "KeyIterator"
      [] kind = "ValueView" -> "KeyIterator"
      [] OTHER -> "ItemIterator"

view_iter_kind(kind) ==
    CASE kind = "KeyView" -> "KeyIterator"
      [] kind = "ValueView" -> "ValueIterator"
      [] OTHER -> "ItemIterator"

\* Map.__iter__: make_key_iterator(m.begin(), m.end()), keep_alive<0, 1>()
map_iter_keep(self) == keep_alive_0_1(self)

MapIter_shared(j) ==
    /\ CanCall
    /\ ~iters[j].held
    /\ iters' = [iters EXCEPT ![j] =
                   IF \E o \in IterIds : iters[o].held /\ iters[o].keeps = MapObj
                   THEN iters[CHOOSE o \in IterIds :
                                iters[o].held /\ iters[o].keeps = MapObj]
                   ELSE NewIter("KeyIterator", map_iter_keep(MapObj), begin(m))]
    /\ last' = Did("iter")
    /\ UNCHANGED <<caps, watch, m, mapAlive, mapHeld, views, refs, crashed>>

MapIter(j) ==
    /\ CanCall
    /\ ~iters[j].held
    /\ iters' = [iters EXCEPT ![j] =
                   NewIter("KeyIterator", map_iter_keep(MapObj), begin(m))]
    /\ last' = Did("iter")
    /\ UNCHANGED <<caps, watch, m, mapAlive, mapHeld, views, refs, crashed>>

\* View.__iter__: make_*_iterator(v.map.begin(), v.map.end()), keep_alive<0, 1>()
view_iter_keep(self) == keep_alive_0_1(self)

ViewIter(i, j) ==
    /\ views[i].held /\ ~crashed
    /\ ~iters[j].held
    /\ iters' = [iters EXCEPT ![j] =
                   NewIter(view_iter_kind(views[i].kind), view_iter_keep(ViewObj(i)),
                           begin(ViewMap(views[i], m)))]
    /\ last' = Did("viewIter")
    /\ UNCHANGED <<caps, watch, m, mapAlive, mapHeld, views, refs, crashed>>

\* __next__ arrives at pos.  What an iterator yields is recorded while the
\* container has not been mutated since the iterator was made.
Arrive(j, pos) ==
    IF pos.at = "end"
    THEN /\ iters' = [iters EXCEPT ![j].it = pos, ![j].first_or_done = TRUE,
                                   ![j].done = TRUE]
         /\ last' = Call("next", KeyObj(NoKey), DefaultVal, "StopIteration", 0, FALSE)
    ELSE /\ iters' = [iters EXCEPT ![j].it = pos, ![j].first_or_done = FALSE,
                        ![j].out = IF iters[j].clean
                                   THEN Append(@, Access(iters[j].kind, m, pos.k))
                                   ELSE @]
         /\ last' = Did("next")

\* Iterator.__next__.  An iterator at a node that was freed is invalid: using
\* it is undefined (the process ends, or the sequence goes on anywhere).
IterNext(j) ==
    /\ iters[j].held /\ ~crashed
    /\ LET s == iters[j]
       IN  IF Dangling(s.it, m)
           THEN \/ /\ crashed' = TRUE
                   /\ last' = Call("next", KeyObj(NoKey), DefaultVal, "crash", 0, FALSE)
                   /\ iters' = iters
                \/ /\ crashed' = crashed
                   /\ \E pos \in {AtNode(k) : k \in KeySet(m)} \cup {AtEnd} :
                        Arrive(j, pos)
           ELSE /\ crashed' = crashed
                /\ Arrive(j, IF s.first_or_done \/ s.it.at = "end" THEN s.it
                             ELSE successor(m, s.it.k))
    /\ UNCHANGED <<caps, watch, m, mapAlive, mapHeld, views, refs>>

\* ------------------------------------------------ dropping handles
\* The caller's handles after a drop; what is no longer reachable is
\* destroyed, the Map with its nodes.
Release(held, vs, its, rs) ==
    LET c == Collect(held, vs, its, rs)
    IN  /\ mapHeld' = held
        /\ views' = c.views
        /\ iters' = c.iters
        /\ refs' = c.refs
        /\ mapAlive' = (mapAlive /\ c.mapAlive)
        /\ m' = IF mapAlive /\ c.mapAlive THEN m ELSE EmptyMap

DropMap ==
    /\ mapHeld /\ ~crashed
    /\ Release(FALSE, views, iters, refs)
    /\ last' = Did("dropMap")
    /\ UNCHANGED <<caps, watch, crashed>>

DropView(i) ==
    /\ views[i].held /\ ~crashed
    /\ Release(mapHeld, [views EXCEPT ![i].held = FALSE], iters, refs)
    /\ last' = Did("dropView")
    /\ UNCHANGED <<caps, watch, crashed>>

DropIter(j) ==
    /\ iters[j].held /\ ~crashed
    /\ Release(mapHeld, views, [iters EXCEPT ![j].held = FALSE], refs)
    /\ last' = Did("dropIter")
    /\ UNCHANGED <<caps, watch, crashed>>

DropRef(r) ==
    /\ refs[r].held /\ ~crashed
    /\ Release(mapHeld, views, iters, [refs EXCEPT ![r].held = FALSE])
    /\ last' = Did("dropRef")
    /\ UNCHANGED <<caps, watch, crashed>>

\* ------------------------------------------------------ specifications
\* The mapping protocol of the Map.
NextMap ==
    \/ MapLen
    \/ MapBool
    \/ \E x \in Args : Contains(x)
    \/ \E k \in Keys : GetItem(k, 0)
    \/ \E k \in Keys : DelItem(k)
    \/ \E k \in Keys, v \in Values, throwAt \in 0..2 : SetItem(k, v, throwAt)

Spec == Init /\ [][NextMap]_vars

\* The value references __getitem__ returns, and the Map mutated under them.
NextRef ==
    \/ \E k \in Keys, r \in RefIds : GetItem(k, r)
    \/ \E k \in Keys : DelItem(k)
    \/ \E k \in Keys, v \in Values : SetItem(k, v, 0)
    \/ \E r \in RefIds : ReadRef(r)
    \/ \E r \in RefIds, v \in Values : WriteRef(r, v)
    \/ \E r \in RefIds : DropRef(r)

SpecRef == Init /\ [][NextRef]_vars

\* The views of a Map the caller mutates.
NextView ==
    \/ \E x \in Args : Contains(x)
    \/ \E k \in Keys : DelItem(k)
    \/ \E k \in Keys, v \in Values : SetItem(k, v, 0)
    \/ \E i \in ViewIds : Keys_(i)
    \/ \E i \in ViewIds : Values_(i)
    \/ \E i \in ViewIds : Items_(i)
    \/ \E i \in ViewIds : ViewLen(i)
    \/ \E i \in ViewIds, x \in Args : ViewContains(i, x)
    \/ \E i \in ViewIds : DropView(i)

SpecView == Start([calls |-> TRUE, snaps |-> FALSE]) /\ [][NextView]_vars

\* One view made at some time, and the sequences made from it later.
NextLive ==
    \/ \E k \in Keys : DelItem(k)
    \/ \E k \in Keys, v \in {1, MaxVal} : SetItem(k, v, 0)
    \/ \E i \in ViewIds : Keys_(i)
    \/ \E i \in ViewIds : Values_(i)
    \/ \E i \in ViewIds : Items_(i)
    \/ \E i \in ViewIds : ViewIter(i, 1)
    \/ IterNext(1)
    \/ DropIter(1)

SpecLive == Start([calls |-> FALSE, snaps |-> TRUE]) /\ [][NextLive]_vars

\* The lazy sequences over a Map the caller mutates.
NextIter ==
    \/ \E k \in Keys : DelItem(k)
    \/ \E k \in Keys, v \in Values : SetItem(k, v, 0)
    \/ \E i \in ViewIds : Keys_(i)
    \/ \E i \in ViewIds : Values_(i)
    \/ \E i \in ViewIds : Items_(i)
    \/ MapIter(1)
    \/ \E i \in ViewIds : ViewIter(i, 1)
    \/ IterNext(1)
    \/ DropIter(1)
    \/ \E i \in ViewIds : DropView(i)

SpecIter == Start([calls |-> FALSE, snaps |-> FALSE]) /\ [][NextIter]_vars

\* The lifetimes: the caller makes objects and drops its handles in any order.
NextLife ==
    \/ \E k \in Keys : SetItem(k, MaxVal, 0)
    \/ \E k \in Keys, r \in RefIds : GetItem(k, r)
    \/ \E i \in ViewIds : Keys_(i)
    \/ \E i \in ViewIds : Values_(i)
    \/ \E i \in ViewIds : Items_(i)
    \/ MapIter(1)
    \/ \E i \in ViewIds : ViewIter(i, 1)
    \/ IterNext(1)
    \/ DropMap
    \/ \E i \in ViewIds : DropView(i)
    \/ DropIter(1)
    \/ \E r \in RefIds : DropRef(r)
    \/ Construct

SpecLife == Start([calls |-> FALSE, snaps |-> FALSE]) /\ [][NextLife]_vars

\* Every operation of the Map, of its views and of a sequence, each call
\* recorded with the entries the Map had before it.
NextFrame ==
    \/ MapLen
    \/ MapBool
    \/ \E x \in Args : Contains(x)
    \/ \E k \in Keys : GetItem(k, 0)
    \/ \E k \in Keys : DelItem(k)
    \/ \E k \in Keys, throwAt \in 0..2 : SetItem(k, MaxVal, throwAt)
    \/ \E i \in ViewIds : Keys_(i)
    \/ \E i \in ViewIds : Values_(i)
    \/ \E i \in ViewIds : Items_(i)
    \/ MapIter(1)
    \/ \E i \in ViewIds : ViewIter(i, 1)
    \/ IterNext(1)
    \/ DropIter(1)

SpecFrame == Start([calls |-> TRUE, snaps |-> FALSE]) /\ [][NextFrame]_vars

\* The caller goes on advancing the sequence it holds.
SpecFinite ==
    /\ Start([calls |-> FALSE, snaps |-> FALSE])
    /\ [][NextIter]_vars
    /\ WF_vars(IterNext(1))

\* Two lazy sequences at a time, over a Map the caller mutates.
NextPass ==
    \/ \E k \in Keys : DelItem(k)
    \/ \E k \in Keys : SetItem(k, MaxVal, 0)
    \/ \E i \in ViewIds : Keys_(i)
    \/ \E i \in ViewIds : Values_(i)
    \/ \E i \in ViewIds : Items_(i)
    \/ \E j \in IterIds : MapIter(j)
    \/ \E i \in ViewIds, j \in IterIds : ViewIter(i, j)
    \/ \E j \in IterIds : IterNext(j)
    \/ \E j \in IterIds : DropIter(j)

SpecPass == Start([calls |-> FALSE, snaps |-> FALSE]) /\ [][NextPass]_vars

\* ------------------------------------------------------------ claims
\* What __getitem__ gives for k: the stored value, or Absent for key_error.
Got(mm, k) ==
    LET res == map_getitem(mm, k)
    IN  IF res.outcome = "ok" THEN mm[res.it.k] ELSE Absent

\* What a full iteration of a flavor yields over the entries mm.
Expected(kind, mm) ==
    LET ks == SortedSeq(KeySet(mm))
    IN  [n \in 1..Len(ks) |-> Access(kind, mm, ks[n])]

\* The flavor of sequence the caller expects of each source: the Map and a
\* KeyView give keys, a ValueView values, an ItemView pairs.
Flavor(j) ==
    IF iters[j].keeps = MapObj THEN "KeyIterator"
    ELSE LET kind == views[iters[j].keeps.i].kind
         IN  CASE kind = "KeyView" -> "KeyIterator"
               [] kind = "ValueView" -> "ValueIterator"
               [] OTHER -> "ItemIterator"

\* What a sequence of a flavor yields from pos to the end of mm.
RECURSIVE Iterate(_, _, _)
Iterate(kind, mm, pos) ==
    IF pos = end(mm) THEN <<>>
    ELSE <<Access(kind, mm, pos.k)>> \o Iterate(kind, mm, successor(mm, pos.k))

\* The two kinds of Value that have __setitem__.
Assignable == [copy_assignable |-> TRUE, copy_constructible |-> TRUE]
ConstructibleOnly == [copy_assignable |-> FALSE, copy_constructible |-> TRUE]

IsPrefix(a, b) == Len(a) <= Len(b) /\ \A n \in 1..Len(a) : a[n] = b[n]

\* C1: after setItem(M, k, v) returns, getItem(M, k) gives v, contains(M, k)
\* is true, and length(M) is one more than before if k was absent before the
\* call and the same as before if k was present.
C1_SetItemPost ==
    (last.op = "setItem" /\ last.outcome = "ok") =>
        LET k == last.arg.val
        IN  /\ Got(m, k) = last.val
            /\ map_contains(m, last.arg) = [outcome |-> "ok", retB |-> TRUE]
            /\ map_len(m) = map_len(last.pre)
                            + (IF last.pre[k] = Absent THEN 1 ELSE 0)

\* setItem overwrote the value of a key that was there, beside another entry.
C1_Witness ==
    /\ last.op = "setItem" /\ last.outcome = "ok"
    /\ last.pre[last.arg.val] \notin {Absent, last.val}
    /\ map_len(m) = 2

\* C2: for a key k of the native key type with no entry, contains(M, k)
\* returns false, and getItem(M, k) and deleteItem(M, k) end in KeyNotFound,
\* which the caller sees.
C2_AbsentKey ==
    (cast_Key(last.arg) /\ last.arg.val \in Keys /\ last.pre[last.arg.val] = Absent) =>
        /\ last.op = "contains" => (last.outcome = "ok" /\ last.retB = FALSE)
        /\ last.op = "getItem" => last.outcome = "KeyError"
        /\ last.op = "delItem" => (last.outcome = "KeyError" /\ m = last.pre)

\* deleteItem of an absent key of a Map that is not empty ended in KeyNotFound.
C2_Witness ==
    /\ last.op = "delItem" /\ last.outcome = "KeyError"
    /\ last.pre[last.arg.val] = Absent
    /\ map_len(m) > 0

\* C3: after deleteItem(M, k) of a key that was present, contains(M, k) is
\* false, length(M) is one less than before, and getItem(M, k) ends in
\* KeyNotFound.
C3_DeletePost ==
    (last.op = "delItem" /\ last.pre[last.arg.val] # Absent) =>
        /\ last.outcome = "ok"
        /\ map_contains(m, last.arg) = [outcome |-> "ok", retB |-> FALSE]
        /\ map_len(m) = map_len(last.pre) - 1
        /\ map_getitem(m, last.arg.val).outcome = "KeyError"

\* deleteItem removed one of two entries.
C3_Witness ==
    /\ last.op = "delItem" /\ last.outcome = "ok"
    /\ last.pre[last.arg.val] # Absent
    /\ map_len(m) = 1

\* C4: contains of the Map and of a KeyView never signals an error; for an
\* argument that is not of the native key type it returns false, whatever the
\* Map holds; for a key it returns true iff the key has an entry.
C4_ContainsTotal ==
    (last.op \in {"contains", "viewContains"}) =>
        /\ last.outcome = "ok"
        /\ ~cast_Key(last.arg) => last.retB = FALSE
        /\ cast_Key(last.arg) => (last.retB = (m[last.arg.val] # Absent))

\* A KeyView of a Map that is not empty was asked for an object of a foreign
\* type.
C4_Witness ==
    /\ last.op = "viewContains" /\ ~cast_Key(last.arg)
    /\ last.retB = FALSE
    /\ map_len(m) > 0

\* C5: the Map is not destroyed while a view or a lazy sequence derived from
\* it exists, whatever handles the caller has dropped; a sequence made from a
\* view keeps the view, and the view keeps the Map.
C5_MapOutlives ==
    /\ (\E i \in ViewIds : views[i].kind # "none") => mapAlive
    /\ (\E j \in IterIds : iters[j].held) => mapAlive
    /\ \A j \in IterIds, i \in ViewIds :
         (iters[j].held /\ iters[j].keeps = ViewObj(i)) => views[i].kind # "none"

\* The caller dropped the Map and the view and still advances a sequence it
\* got from the view.
C5_Witness ==
    /\ ~mapHeld /\ mapAlive
    /\ \E i \in ViewIds :
         /\ views[i].kind # "none" /\ ~views[i].held
         /\ iters[1].held /\ iters[1].keeps = ViewObj(i)
         /\ iters[1].out # <<>>

\* C6: a view is live: a sequence made from a view, at any time after the
\* view was made and after any setItem and deleteItem, yields the entries the
\* Map has now, and the view's length is the Map's length now.
C6_ViewsLive ==
    \A i \in ViewIds :
        /\ views[i].held => view_len(views[i], m) = map_len(m)
        /\ (views[i].kind # "none" /\ iters[1].held /\ iters[1].keeps = ViewObj(i)
            /\ iters[1].clean) =>
               /\ IsPrefix(iters[1].out, Expected(Flavor(1), m))
               /\ iters[1].done => iters[1].out = Expected(Flavor(1), m)

\* A sequence from a view was iterated to its end and gave entries, and the
\* Map has other entries than it had when the view was made.
C6_Witness ==
    \E i \in ViewIds :
        /\ views[i].held /\ views[i].snap # m
        /\ iters[1].held /\ iters[1].keeps = ViewObj(i)
        /\ iters[1].clean /\ iters[1].done
        /\ Len(iters[1].out) = 2

\* C7: with no mutation during the iteration, a full iteration of keys()
\* over a Map of n entries yields n keys, all distinct, in the native
\* (ascending) order; the keys of the pairs of items() are that sequence,
\* element for element; values() yields the stored value of each of these
\* keys in that order.
C7_IterationOrder ==
    (iters[1].held /\ iters[1].clean /\ iters[1].done) =>
        LET out == iters[1].out
            ks == SortedSeq(KeySet(m))
        IN  /\ Len(out) = map_len(m)
            /\ Flavor(1) = "KeyIterator" =>
                 /\ out = ks
                 /\ \A a, b \in 1..Len(out) : a < b => out[a] < out[b]
            /\ Flavor(1) = "ItemIterator" =>
                 /\ [n \in 1..Len(out) |-> out[n][1]] = ks
                 /\ \A n \in 1..Len(out) : out[n][2] = m[ks[n]]
            /\ Flavor(1) = "ValueIterator" =>
                 out = [n \in 1..Len(ks) |-> m[ks[n]]]

\* A sequence from values() over two entries whose values are not in the
\* order of their keys was iterated to its end.
C7_Witness ==
    /\ iters[1].held /\ iters[1].clean /\ iters[1].done
    /\ Flavor(1) = "ValueIterator"
    /\ Len(iters[1].out) = 2
    /\ iters[1].out[1] > iters[1].out[2]

\* C8: with a Value that is copy-constructible only (erase and reconstruct),
\* setItem(M, k, v2) on a key that an earlier setItem(M, k, v1) put there
\* leaves one entry for k, holding v2, and the length it had before the call.
C8_Reconstruct ==
    (/\ last.op = "setItem" /\ last.outcome = "ok"
     /\ ~caps.copy_assignable
     /\ last.pre[last.arg.val] # Absent) =>
        /\ Got(m, last.arg.val) = last.val
        /\ map_len(m) = map_len(last.pre)
        /\ \A k \in Keys \ {last.arg.val} : m[k] = last.pre[k]

\* Erase and reconstruct replaced the value of a key by another value.
C8_Witness ==
    /\ last.op = "setItem" /\ last.outcome = "ok"
    /\ ~caps.copy_assignable /\ caps.copy_constructible
    /\ last.pre[last.arg.val] \notin {Absent, last.val}
    /\ m[last.arg.val] = last.val

\* C9: no operation ends in a state that is neither the state before the call
\* nor the fully updated state, also when constructing or assigning the value
\* fails part-way.
C9_Atomic ==
    /\ last.op = "setItem" =>
         \/ m = last.pre
         \/ m = [last.pre EXCEPT ![last.arg.val] = last.val]
    /\ last.op = "delItem" =>
         \/ m = last.pre
         \/ m = [last.pre EXCEPT ![last.arg.val] = Absent]
    /\ last.op \in {"len", "bool", "contains", "getItem"} => m = last.pre

\* C10: the reference getItem(M, k) returns aliases the stored value: while
\* the entry of k has not been removed, the reference and getItem(M, k) see
\* the same value, and a value written through the reference is what
\* getItem(M, k) and the iteration of values() and items() give.
C10_Aliased ==
    \A r \in RefIds :
        (refs[r].held /\ refs[r].valid) =>
            /\ Got(m, refs[r].key) = RefTarget(refs[r], m)
            /\ (last.op = "writeRef" /\ last.outcome = "ok"
                /\ last.arg.val = refs[r].key) =>
                  /\ Got(m, refs[r].key) = last.val
                  /\ \E n \in 1..map_len(m) :
                       /\ Expected("ItemIterator", m)[n] = <<refs[r].key, last.val>>
                       /\ Expected("ValueIterator", m)[n] = last.val

\* A value was written through a reference and changed the stored value.
C10_Witness ==
    \E r \in RefIds :
        /\ refs[r].held /\ refs[r].valid
        /\ last.op = "writeRef" /\ last.outcome = "ok"
        /\ last.arg.val = refs[r].key
        /\ last.pre[refs[r].key] # last.val
        /\ m[refs[r].key] = last.val

\* C11: in every state reached from a newly constructed Map by setItem and
\* deleteItem calls, successful or failing, isNonEmpty(M) is (length(M) > 0),
\* also as the calls return them; a newly constructed Map has length 0 and
\* isNonEmpty false.
C11_BoolIsLen ==
    /\ map_bool(m) = (map_len(m) > 0)
    /\ last.op = "bool" => last.retB = (map_len(m) > 0)
    /\ last.op = "len" => (last.ret > 0) = map_bool(m)
    /\ last.op = "none" => (map_len(m) = 0 /\ ~map_bool(m))

\* isNonEmpty was asked of a Map that holds an entry.
C11_Witness ==
    /\ last.op = "bool" /\ last.retB
    /\ map_len(m) = 1

\* C12: each call of iterate gives a fresh sequence, independent of every
\* other sequence over the same Map: whatever the order in which the caller
\* advances them, each sequence yields the entries of the Map from the first
\* one on; a step that advances one sequence changes no other; an exhausted
\* sequence stays exhausted and yields nothing more; and a sequence made
\* later starts at the first entry the Map has then.
C12_EachYields ==
    \A j \in IterIds :
        (iters[j].held /\ iters[j].clean) =>
            /\ IsPrefix(iters[j].out, Expected(Flavor(j), m))
            /\ iters[j].done => iters[j].out = Expected(Flavor(j), m)

C12_Step ==
    \A j \in IterIds :
        /\ \A o \in IterIds \ {j} :
              (/\ iters[j].held /\ iters'[j].held /\ iters'[j] # iters[j]
               /\ iters[o].held /\ iters'[o].held /\ iters'[o] # iters[o]) =>
                  (~iters'[j].clean /\ ~iters'[o].clean)
        /\ (iters[j].held /\ iters[j].done /\ iters'[j].held) =>
              /\ iters'[j].done
              /\ iters'[j].clean => iters'[j].out = iters[j].out
        /\ (~iters[j].held /\ iters'[j].held) =>
              /\ iters'[j].it = begin(m')
              /\ iters'[j].out = <<>>
              /\ iters'[j].first_or_done /\ ~iters'[j].done /\ iters'[j].clean

C12_Independent == []C12_EachYields /\ [][C12_Step]_vars

\* One sequence is exhausted after two elements while another sequence over
\* the same Map has yielded one.
C12_Witness ==
    /\ iters[1].held /\ iters[1].clean /\ iters[1].done /\ Len(iters[1].out) = 2
    /\ iters[2].held /\ iters[2].clean /\ ~iters[2].done /\ Len(iters[2].out) = 1
    /\ iters[1].keeps = MapObj /\ iters[2].keeps = MapObj

\* C13: every lazy sequence is finite: while the Map is not mutated, a
\* sequence made from a Map or a view of n entries has yielded at most n
\* elements, it is exhausted after exactly n, and a caller that goes on
\* advancing it reaches its end.
C13_Length ==
    (iters[1].held /\ iters[1].clean) =>
        /\ Len(iters[1].out) <= map_len(m)
        /\ iters[1].done => Len(iters[1].out) = map_len(m)

C13_Finite ==
    /\ []C13_Length
    /\ (iters[1].held /\ iters[1].clean /\ ~iters[1].done)
          ~> (iters[1].done \/ ~iters[1].clean \/ ~iters[1].held)

\* A sequence made from the Map was advanced to its end over two entries.
C13_Witness ==
    /\ iters[1].held /\ iters[1].clean /\ iters[1].done
    /\ iters[1].keeps = MapObj
    /\ map_len(m) = 2 /\ Len(iters[1].out) = 2

\* C14: in every reachable state, the length of every view of M (KeyView,
\* ValueView, ItemView) is the length of M, and for every KeyView and every
\* argument x, of the native key type or not, KeyView.contains(x) is
\* M.contains(x); the calls return these values.
C14_ViewDelegates ==
    /\ \A i \in ViewIds :
          views[i].held =>
            /\ view_len(views[i], m) = map_len(m)
            /\ views[i].kind = "KeyView" =>
                 \A x \in Args : view_contains(views[i], m, x) = map_contains(m, x)
    /\ last.op = "viewLen" => last.ret = map_len(m)
    /\ last.op = "viewContains" =>
         [outcome |-> last.outcome, retB |-> last.retB] = map_contains(m, last.arg)

\* A KeyView of a Map of two entries was asked for a key the Map holds.
C14_Witness ==
    /\ last.op = "viewContains" /\ cast_Key(last.arg) /\ last.retB
    /\ \E i \in ViewIds : views[i].kind = "KeyView" /\ view_len(views[i], m) = 2

\* C15: setItem(M, k, v) and a successful deleteItem(M, k) leave every entry
\* of another key as it was (the same keys apart from k, the same values);
\* length, isNonEmpty, contains, getItem, keys, values, items, and making or
\* advancing a lazy sequence leave the entries of the Map as they were.
C15_Frame ==
    /\ (last.op = "setItem" \/ (last.op = "delItem" /\ last.outcome = "ok")) =>
         \A o \in Keys \ {last.arg.val} : m[o] = last.pre[o]
    /\ last.op \in {"len", "bool", "contains", "getItem", "keys", "values", "items",
                    "iter", "viewIter", "next"} => m = last.pre

\* deleteItem removed one entry of a Map that keeps another, while the
\* caller holds a sequence.
C15_Witness ==
    /\ last.op = "delItem" /\ last.outcome = "ok"
    /\ \E o \in Keys \ {last.arg.val} : m[o] \in Values
    /\ iters[1].held

\* C16: a getItem or deleteItem that ends in KeyNotFound leaves the Map as it
\* was before the call: the same entries, the same values, the same length,
\* and the same sequence from an iteration that follows.
C16_FailedLeaves ==
    (last.op \in {"getItem", "delItem"} /\ last.outcome = "KeyError") =>
        /\ KeySet(m) = KeySet(last.pre)
        /\ \A k \in Keys : Got(m, k) = Got(last.pre, k)
        /\ map_len(m) = map_len(last.pre)
        /\ \A kind \in {"KeyIterator", "ValueIterator", "ItemIterator"} :
              Iterate(kind, m, begin(m)) = Iterate(kind, last.pre, begin(last.pre))

\* getItem of an absent key of a Map that holds an entry ended in KeyNotFound.
C16_Witness ==
    /\ last.op = "getItem" /\ last.outcome = "KeyError"
    /\ map_len(last.pre) = 1

\* C17: the two setItem strategies cannot be told apart by the Map's
\* contents.  From every state a sequence of setItem and deleteItem calls
\* reaches with either strategy, every setItem call gives with assign in
\* place and with erase and reconstruct the same outcome, the same keys, the
\* same value for each key and the same length, and the call the Map made is
\* the one both strategies make; deleteItem is the same code for both and
\* ends in success or KeyNotFound.  So a Map of each strategy, given the same
\* calls from empty, is in the same state after every call.
C17_SameStep ==
    /\ \A k \in Keys, v \in Values :
          LET a == map_setitem(Assignable, m, k, v, 0)
              e == map_setitem(ConstructibleOnly, m, k, v, 0)
          IN  /\ a.outcome = "ok" /\ e.outcome = "ok"
              /\ KeySet(a.m) = KeySet(e.m)
              /\ \A o \in Keys : Got(a.m, o) = Got(e.m, o)
              /\ map_len(a.m) = map_len(e.m)
    /\ (last.op = "setItem" /\ last.outcome = "ok") =>
          /\ m = map_setitem(Assignable, last.pre, last.arg.val, last.val, 0).m
          /\ m = map_setitem(ConstructibleOnly, last.pre, last.arg.val, last.val, 0).m
    /\ last.op = "delItem" =>
          /\ last.outcome = (IF last.pre[last.arg.val] = Absent THEN "KeyError" ELSE "ok")
          /\ m = [last.pre EXCEPT ![last.arg.val] = Absent]

\* Assign in place overwrote the value of a key, beside another entry.
C17_Witness ==
    /\ last.op = "setItem" /\ last.outcome = "ok" /\ caps = Assignable
    /\ last.pre[last.arg.val] \in Values \ {last.val}
    /\ map_len(m) = 2
    /\ m = map_setitem(ConstructibleOnly, last.pre, last.arg.val, last.val, 0).m

\* C18: a reference getItem(M, k) returned and the caller still holds keeps
\* referring to the live entry of k across a later setItem(M, k, v2), with
\* either strategy: in a step that starts with the reference at the entry of
\* k and ends with k in the Map, the reference is still at the entry of k,
\* not at storage of an erased entry, and after setItem(M, k, v2) reading
\* through it gives v2.
C18_Step ==
    \A r \in RefIds :
        (/\ refs[r].held /\ refs[r].valid /\ ~Dangling(refs[r].ptr, m)
         /\ refs'[r].held /\ m'[refs[r].key] # Absent) =>
            /\ refs'[r].ptr = AtNode(refs[r].key)
            /\ refs'[r].valid
            /\ (last'.op = "setItem" /\ last'.outcome = "ok"
                /\ last'.arg.val = refs[r].key) =>
                  RefTarget(refs'[r], m') = last'.val

C18_RefSurvives == [][C18_Step]_vars

====
